---- MODULE Spec2Model ----
(***************************************************************************)
(* Brand-safety classification pipeline: the REST endpoints, the           *)
(* ClassificationService orchestrator, the ImageProcessor, the image       *)
(* utilities, the OpenAI classifier client and the results store.          *)
(*                                                                         *)
(* Text is a sequence of one-character strings.  Messages built by         *)
(* f-strings are sequences of chunks (the literal prefix, then the         *)
(* interpolated values).  A dict is a function from key strings to values. *)
(* A path is the sequence of its parts, <<directory, uuid, suffix>>; the   *)
(* empty path "" is the empty sequence.  The data directory is a function  *)
(* from the paths of the files it holds to their contents.                 *)
(***************************************************************************)
EXTENDS Integers, Sequences, FiniteSets, TLC

\* ------------------------------------------------------------------ bounds
\* Number of requests that are served (possibly overlapping in time).
MaxReqs == 2

Reqs == 1..MaxReqs

\* ------------------------------------------------------ program constants
DATA_DIR == "data"

MAX_IMAGE_SIZE == 10 * 1024 * 1024

SUPPORTED_FORMATS == {"jpg", "jpeg", "png", "webp"}

supported_formats == {"image/jpeg", "image/jpg", "image/png", "image/webp"}

max_size == 1024

Categories ==
  {"adultContentRating", "drugsContentRating", "alcoholContentRating",
   "hateSpeechRating", "armsAndAmmunitionRating",
   "deathInjuryOrMilitaryConflictRating", "terrorismRating",
   "obscenityAndProfanityRating"}

\* The three keys the prompt asks for in each category.
RatingKey(c) == c
ConfidenceKey(c) == c \o "_confidence_score"
ExplanationKey(c) == c \o "_explanation"

CategoryKeys ==
  UNION {{RatingKey(c), ConfidenceKey(c), ExplanationKey(c)} : c \in Categories}

\* ------------------------------------------------------------ dict helpers
EmptyDict == << >>

\* d[k] = v  (item assignment: adds the key or overwrites it)
DictSet(d, k, v) == [x \in (DOMAIN d) \cup {k} |-> IF x = k THEN v ELSE d[x]]

\* d.update(e)
DictUpdate(d, e) ==
  [x \in (DOMAIN d) \cup (DOMAIN e) |-> IF x \in DOMAIN e THEN e[x] ELSE d[x]]

\* ------------------------------------------------------------ str helpers
\* pat in s
Contains(s, pat) ==
  \E i \in 1..(Len(s) - Len(pat) + 1) : SubSeq(s, i, i + Len(pat) - 1) = pat

\* s.find(pat) + 1, and 0 when pat does not occur
Find(s, pat) ==
  IF Contains(s, pat)
  THEN CHOOSE i \in 1..(Len(s) - Len(pat) + 1) :
         /\ SubSeq(s, i, i + Len(pat) - 1) = pat
         /\ \A j \in 1..(i - 1) : SubSeq(s, j, j + Len(pat) - 1) # pat
  ELSE 0

\* s.split(pat): the pieces between the non-overlapping occurrences of pat,
\* found left to right
RECURSIVE Split(_, _)
Split(s, pat) ==
  IF Find(s, pat) = 0
  THEN <<s>>
  ELSE <<SubSeq(s, 1, Find(s, pat) - 1)>>
         \o Split(SubSeq(s, Find(s, pat) + Len(pat), Len(s)), pat)

Whitespace == {" "}

\* s.strip()
RECURSIVE LStrip(_)
LStrip(s) ==
  IF s # << >> /\ Head(s) \in Whitespace THEN LStrip(Tail(s)) ELSE s

RECURSIVE RStrip(_)
RStrip(s) ==
  IF s # << >> /\ s[Len(s)] \in Whitespace
  THEN RStrip(SubSeq(s, 1, Len(s) - 1))
  ELSE s

Strip(s) == RStrip(LStrip(s))

\* The backtick character of a markdown fence is written "^".
BT == "^"

Fence == <<BT, BT, BT>>

FenceJson == <<BT, BT, BT, "j", "s", "o", "n">>

\* ------------------------------------------------------------------- JSON
\* The text of a JSON object is "{", its members, "}".  One symbol stands
\* for the text of one group of members:
\*   "F"  the 24 category members the prompt asks for
\*   "P"  the member "adultContentRating" alone
\*   "E"  a member "error"
\*   "I"  a member "image_path"
\*   "T"  a member "processing_time"
\* Backticks and the letters j, s, o, n between the braces are characters of
\* the string value of a member "note".  "5" is the text of a JSON value
\* that is no object (a number, a string, an array, null).
MemberSyms == {"F", "P", "E", "I", "T"}

StringChars == {BT, "j", "s", "o", "n"}

ScalarText == <<"5">>

SpoofPath == <<"tmp", "spoofed", ".jpg">>

MemberDict(sym) ==
  CASE sym = "F" -> [k \in CategoryKeys |->
                       IF k \in Categories THEN <<"low">>
                       ELSE IF k \in {ConfidenceKey(c) : c \in Categories}
                            THEN <<"0%">>
                            ELSE <<"nothing detected">>]
    [] sym = "P" -> [adultContentRating |-> <<"high">>]
    [] sym = "E" -> [error |-> <<"model reported an error">>]
    [] sym = "I" -> [image_path |-> SpoofPath]
    [] sym = "T" -> [processing_time |-> [total_seconds |-> "model supplied"]]
    [] OTHER -> EmptyDict

RECURSIVE SelectChars(_, _)
SelectChars(s, chars) ==
  IF s = << >> THEN << >>
  ELSE IF Head(s) \in chars
       THEN <<Head(s)>> \o SelectChars(Tail(s), chars)
       ELSE SelectChars(Tail(s), chars)

RECURSIVE MembersDict(_)
MembersDict(body) ==
  IF body = << >> THEN EmptyDict
  ELSE DictUpdate(MemberDict(Head(body)), MembersDict(Tail(body)))

IsObjectText(s) ==
  /\ Len(s) >= 2
  /\ s[1] = "{"
  /\ s[Len(s)] = "}"
  /\ \A i \in 2..(Len(s) - 1) : s[i] \in MemberSyms \cup StringChars \cup Whitespace

\* json.loads(s): [ok |-> FALSE] stands for json.JSONDecodeError
JsonLoads(s) ==
  IF IsObjectText(Strip(s))
  THEN LET body == SubSeq(Strip(s), 2, Len(Strip(s)) - 1)
           note == SelectChars(body, StringChars)
           members == MembersDict(body)
       IN  [ok |-> TRUE, is_dict |-> TRUE,
            value |-> IF note = << >> THEN members
                      ELSE DictSet(members, "note", note)]
  ELSE IF Strip(s) = ScalarText
       THEN [ok |-> TRUE, is_dict |-> FALSE, value |-> EmptyDict]
       ELSE [ok |-> FALSE, is_dict |-> FALSE, value |-> EmptyDict]

\* ------------------------------------------------------ classifier client
\* The outcome of a call: either it returns `value`, or it raises an
\* exception whose str() is `exc`.
Returned(v) == [raised |-> FALSE, value |-> v, exc |-> << >>]

Raised(msg) == [raised |-> TRUE, value |-> EmptyDict, exc |-> msg]

\* A response of the remote model: its message content, or None.
NoneContent == [is_none |-> TRUE, text |-> << >>]

Content(text) == [is_none |-> FALSE, text |-> text]

\* The payload _process_response extracts from the content.
ExtractJsonStr(content) ==
  IF Contains(content, FenceJson)
  THEN Strip(Split(Split(content, FenceJson)[2], Fence)[1])
  ELSE IF Contains(content, Fence)
       THEN Strip(Split(content, Fence)[2])
       ELSE Strip(content)

\* A parse failure that keeps the trimmed text.
ParseFailureTrimmed(content, image_path) ==
  [image_path |-> image_path,
   error |-> <<"Failed to parse model response">>,
   raw_response |-> Strip(content)]

\* The dict of the except json.JSONDecodeError clause.
ParseFailure(content, image_path) ==
  [image_path |-> image_path,
   error |-> <<"Failed to parse model response">>,
   raw_response |-> content]

\* _process_response keeping an image_path that the parsed object has.
ProcessResponseKeepingModelPath(response, image_path) ==
  IF response.is_none
  THEN Raised(<<"argument of type 'NoneType' is not iterable">>)
  ELSE LET loaded == JsonLoads(ExtractJsonStr(response.text))
       IN  IF ~loaded.ok
           THEN Returned(ParseFailure(response.text, image_path))
           ELSE IF ~loaded.is_dict
                THEN Raised(<<"object does not support item assignment">>)
                ELSE IF "image_path" \in DOMAIN loaded.value
                     THEN Returned(loaded.value)
                     ELSE Returned(DictSet(loaded.value, "image_path", image_path))

\* OpenAIModel._process_response
ProcessResponse(response, image_path) ==
  IF response.is_none
  THEN Raised(<<"argument of type 'NoneType' is not iterable">>)
  ELSE LET loaded == JsonLoads(ExtractJsonStr(response.text))
       IN  IF ~loaded.ok
           THEN Returned(ParseFailure(response.text, image_path))
           ELSE IF ~loaded.is_dict
                THEN Raised(<<"object does not support item assignment">>)
                ELSE Returned(DictSet(loaded.value, "image_path", image_path))

\* The processing_time dict OpenAIModel.classify_image attaches.  A value
\* names the measurement it holds (round(total_time, 2), ...).
ModelTiming ==
  [total_seconds |-> "total_time", api_seconds |-> "api_time",
   encode_seconds |-> "encode_time", process_seconds |-> "process_time"]

\* classify_image with an except clause that returns instead of raising.
ClassifyImageSwallowing(api, image_path) ==
  IF api.raised
  THEN Returned([image_path |-> image_path, error |-> api.exc])
  ELSE LET r == ProcessResponse(api.value, image_path)
       IN  IF r.raised
           THEN Raised(r.exc)
           ELSE Returned(DictSet(r.value, "processing_time", ModelTiming))

\* OpenAIModel.classify_image once the remote call has ended: `api` is the
\* outcome of client.chat.completions.create.  Every exception is logged
\* and raised again.
ClassifyImage(api, image_path) ==
  IF api.raised
  THEN Raised(api.exc)
  ELSE LET r == ProcessResponse(api.value, image_path)
       IN  IF r.raised
           THEN Raised(r.exc)
           ELSE Returned(DictSet(r.value, "processing_time", ModelTiming))

\* ---------------------------------------------------------- image utilities
\* What PIL reports of the bytes of an image file.  `decodes` is whether
\* Image.open succeeds; format "" stands for a format of None.
ImageFile(decodes, format, mode, width, height, size) ==
  [complete |-> TRUE, decodes |-> decodes, format |-> format, mode |-> mode,
   width |-> width, height |-> height, size |-> size]

\* A file that was created and whose bytes were not all written.
TruncatedFile ==
  [complete |-> FALSE, decodes |-> FALSE, format |-> "", mode |-> "",
   width |-> 0, height |-> 0, size |-> 0]

\* str.lower() on the format names PIL reports
Lower(format) ==
  CASE format = "JPEG" -> "jpeg"
    [] format = "PNG" -> "png"
    [] format = "WEBP" -> "webp"
    [] format = "GIF" -> "gif"
    [] format = "MPO" -> "mpo"
    [] OTHER -> format

\* is_valid_image refusing a file of exactly the maximum size.
IsValidImageBelowMax(file) ==
  IF ~file.decodes THEN FALSE
  ELSE IF file.format # "" /\ Lower(file.format) \notin SUPPORTED_FORMATS
       THEN FALSE
       ELSE IF file.size >= MAX_IMAGE_SIZE THEN FALSE ELSE TRUE

\* image_utils.is_valid_image; any exception gives False
IsValidImage(file) ==
  IF ~file.decodes THEN FALSE
  ELSE IF file.format # "" /\ Lower(file.format) \notin SUPPORTED_FORMATS
       THEN FALSE
       ELSE IF file.size > MAX_IMAGE_SIZE THEN FALSE ELSE TRUE

\* The largest k with 2^k <= n
RECURSIVE Log2(_)
Log2(n) == IF n < 2 THEN 0 ELSE 1 + Log2(n \div 2)

\* 2^e mod m
RECURSIVE Pow2Mod(_, _)
Pow2Mod(e, m) == IF e = 0 THEN 1 % m ELSE (2 * Pow2Mod(e - 1, m)) % m

\* int(a * (max_size / b)) for 1 <= a <= b, max_size < b, in the arithmetic
\* of Python floats (IEEE doubles, 53 bits, round to nearest even).
\*   max_size / b is rounded to q = M / 2^(53 + j), with 2^52 <= M < 2^53 and
\*   j = Log2((b - 1) \div max_size).  With r = 2^(Log2(max_size) + 53 + j)
\*   mod b, the quotient was rounded down by r / (b * 2^(53 + j)) when
\*   2 * r < b, and up otherwise.
\*   a * q is rounded once more and int() truncates.  The truncation is n,
\*   the floor of a * max_size / b, unless a * max_size / b is the integer n,
\*   q was rounded down, and the error a * r / (b * 2^(53 + j)) of the product
\*   exceeds half the distance from n to the double below it (2^(k - 52) for
\*   2^k < n < 2^(k + 1), 2^(k - 53) for n = 2^k): then the product is a
\*   double below n and int() gives n - 1.
ScaleDim(a, b) ==
  LET n == (a * max_size) \div b
      j == Log2((b - 1) \div max_size)
      r == Pow2Mod(Log2(max_size) + 53 + j, b)
      k == Log2(n)
      below == /\ (a * max_size) % b = 0
               /\ n > 0
               /\ r > 0
               /\ 2 * r < b
               /\ IF n = 2^k THEN 2 * a * r > b * 2^(j + k)
                  ELSE a * r > b * 2^(j + k)
  IN  IF below THEN n - 1 ELSE n

NewWidth(w, h) == IF w > h THEN max_size ELSE ScaleDim(w, h)

NewHeight(w, h) == IF w > h THEN ScaleDim(h, w) ELSE max_size

\* normalize_image saving the image in the mode it was opened in.
NormalizeImageKeepingMode(file, io_ok) ==
  IF ~file.decodes THEN [ok |-> FALSE, file |-> file]
  ELSE LET resize == file.width > max_size \/ file.height > max_size
           w == IF resize THEN NewWidth(file.width, file.height) ELSE file.width
           h == IF resize THEN NewHeight(file.width, file.height) ELSE file.height
       IN  IF w < 1 \/ h < 1 THEN [ok |-> FALSE, file |-> file]
           ELSE IF ~io_ok THEN [ok |-> FALSE, file |-> TruncatedFile]
                ELSE [ok |-> TRUE,
                      file |-> ImageFile(TRUE, "JPEG", file.mode, w, h, file.size)]

\* image_utils.normalize_image: [ok, file] where ok is the value returned
\* and file is what the path holds afterwards.  io_ok is whether img.save
\* succeeds; resize raises for a dimension of 0.
NormalizeImage(file, io_ok) ==
  IF ~file.decodes THEN [ok |-> FALSE, file |-> file]
  ELSE LET resize == file.width > max_size \/ file.height > max_size
           w == IF resize THEN NewWidth(file.width, file.height) ELSE file.width
           h == IF resize THEN NewHeight(file.width, file.height) ELSE file.height
       IN  IF w < 1 \/ h < 1 THEN [ok |-> FALSE, file |-> file]
           ELSE IF ~io_ok THEN [ok |-> FALSE, file |-> TruncatedFile]
                ELSE [ok |-> TRUE,
                      file |-> ImageFile(TRUE, "JPEG", "RGB", w, h, file.size)]

\* ------------------------------------------------------------- file system
\* An identifier source that gives every request the same value.
uuid4Fixed(r) == 1

\* uuid.uuid4() as drawn for request r: no two draws give the same value.
uuid4(r) == r

\* os.path.join(settings.DATA_DIR, f"{uuid}.jpg")
ImagePath(id) == <<DATA_DIR, id, ".jpg">>

\* _save_results_to_file: basename, splitext, f"{image_name}_results.json"
ResultsPath(image_path) == <<DATA_DIR, image_path[2], "_results.json">>

\* open(path, "w") then writing content
WriteFile(dir, path, content) ==
  [p \in (DOMAIN dir) \cup {path} |-> IF p = path THEN content ELSE dir[p]]

\* os.remove(path)
RemoveFile(dir, path) == [p \in (DOMAIN dir) \ {path} |-> dir[p]]

Exists(dir, path) == path \in DOMAIN dir

\* ------------------------------------------------------------------ inputs
\* file.filename of an upload and the url of a URL request
Filename == "photo.png"

Url == "https://example.com/photo.png"

\* Declared content types of uploads.
ContentTypes == {"image/png", "IMAGE/PNG", "text/plain"}

\* The bytes that arrive in an upload or a download.
ReceivedBytes ==
  { ImageFile(TRUE, "JPEG", "RGB", 2000, 1000, 500000),
    ImageFile(TRUE, "PNG", "RGBA", 1024, 512, 500000),
    ImageFile(TRUE, "GIF", "P", 100, 100, 5000),
    ImageFile(TRUE, "JPEG", "RGB", 640, 480, MAX_IMAGE_SIZE + 1),
    ImageFile(TRUE, "PNG", "L", 5000, 1, 7000),
    ImageFile(FALSE, "", "", 0, 0, 9) }

\* HTTP status codes of the download.
StatusCodes == {200, 404}

\* What the remote model answers.
ModelTexts ==
  { <<" ">> \o FenceJson \o <<" ", "{", "F", "}", " ">> \o Fence \o <<" ">>,
    Fence \o <<"{", "F", "I", "T", "}">> \o Fence,
    <<"{", "P", "}">>,
    <<"s", "o", "s", "o">>,
    ScalarText }

TransportError == <<"Request timed out.">>

\* Outcomes of client.chat.completions.create
ApiOutcomes ==
  {Raised(TransportError), Returned(NoneContent)}
    \cup {Returned(Content(t)) : t \in ModelTexts}

\* -------------------------------------------------------------------- state
VARIABLES
  pc,         \* pc[r]: where request r stands
  kind,       \* kind[r]: "upload" or "url" ("" before the request arrives)
  file_content_type, \* file_content_type[r]: file.content_type of an upload ("" otherwise)
  image_path, \* image_path[r]: the path the image processor chose for r
  data_dir,   \* the files of settings.DATA_DIR: path -> content
  proc_ret,   \* proc_ret[r]: what the image processor returned
  result,     \* result[r]: the dict the classifier client returned
  ret,        \* ret[r]: the outcome of the service call
  response,   \* response[r]: the HTTP response of the endpoint
  save_ret,   \* save_ret[r]: what _save_results_to_file returned
  log,        \* log[r]: the operations request r has performed, in order
  payload,    \* the text a model response is built from
  parsed,     \* parsed[w]: what _process_response gave for wrapping w
  img,        \* the image file the image utilities are applied to
  valid,      \* <<what is_valid_image returned for img>>, << >> before the call
  normalized, \* what the successive calls of normalize_image gave
  api_response, \* the message content a call of the remote model returned
  classified, \* <<the outcome of classify_image for api_response>>
  clock,      \* what time.time() returns now, in ticks
  marks,      \* the values classify_image has read from the clock, in order
  timing,     \* <<the processing_time dict classify_image attached>>
  logging_initialized, \* the module flag _logging_initialized
  handlers,   \* the logging configuration: loguru sinks, intercepted loggers
  caller,     \* caller[t]: where thread t stands in setup_logging
  calls,      \* calls[t]: how many calls of setup_logging thread t has begun
  bodies      \* how many times the handler-installation body has begun

\* The state of the requests, and the state of the calls of single functions.
reqvars ==
  <<pc, kind, file_content_type, image_path, data_dir, proc_ret, result, ret,
    response, save_ret, log>>

parsevars == <<payload, parsed>>

imagevars == <<img, valid, normalized>>

clientvars == <<api_response, classified>>

timevars == <<clock, marks, timing>>

logvars == <<logging_initialized, handlers, caller, calls, bodies>>

callvars == <<parsevars, imagevars, clientvars, timevars, logvars>>

vars == <<reqvars, callvars>>

NoPath == << >>

NoProcRet == [image_path |-> NoPath, success |-> FALSE]

NoOutcome == Returned(EmptyDict)

NoResponse == [status_code |-> 0, content |-> EmptyDict]

NoSaveRet == [results_path |-> NoPath, success |-> FALSE, called |-> FALSE]

\* No request has arrived.
NoRequests ==
  /\ pc = [r \in Reqs |-> "idle"]
  /\ kind = [r \in Reqs |-> ""]
  /\ file_content_type = [r \in Reqs |-> ""]
  /\ image_path = [r \in Reqs |-> NoPath]
  /\ data_dir = << >>
  /\ proc_ret = [r \in Reqs |-> NoProcRet]
  /\ result = [r \in Reqs |-> EmptyDict]
  /\ ret = [r \in Reqs |-> NoOutcome]
  /\ response = [r \in Reqs |-> NoResponse]
  /\ save_ret = [r \in Reqs |-> NoSaveRet]
  /\ log = [r \in Reqs |-> << >>]

\* The threads that call setup_logging.
MaxCallers == 2

Callers == 1..MaxCallers

\* loguru starts with its default stderr handler; no logger of the standard
\* library is intercepted.
DefaultHandlers == [sinks |-> <<"default">>, root |-> FALSE, intercepted |-> {}]

\* No function has been called on its own.
NoParseCalls == payload = << >> /\ parsed = << >>

NoImageCalls == img = TruncatedFile /\ valid = << >> /\ normalized = << >>

NoClientCalls == api_response = NoneContent /\ classified = << >>

NoTimedCalls == clock = 0 /\ marks = << >> /\ timing = << >>

NoLoggingCalls ==
  /\ logging_initialized = FALSE
  /\ handlers = DefaultHandlers
  /\ caller = [t \in Callers |-> "idle"]
  /\ calls = [t \in Callers |-> 0]
  /\ bodies = 0

NoCalls ==
  /\ NoParseCalls
  /\ NoImageCalls
  /\ NoClientCalls
  /\ NoTimedCalls
  /\ NoLoggingCalls

Init == NoRequests /\ NoCalls

Logged(r, ev) == log' = [log EXCEPT ![r] = Append(@, ev)]

Goto(r, label) == pc' = [pc EXCEPT ![r] = label]

\* ---------------------------------------------------------------- api utils
\* api_utils.format_error_response
format_error_response(error_message, status_code) ==
  [success |-> FALSE, error |-> [message |-> error_message, code |-> status_code]]

\* api_utils.format_success_response
format_success_response(data) == [success |-> TRUE, data |-> data]

\* A format check that lets every declared type through.
AcceptsAnyType(content_type) == TRUE

\* api_utils.validate_image_format
validate_image_format(content_type) == content_type \in supported_formats

JSONResponse(status_code, content) ==
  [status_code |-> status_code, content |-> content]

\* ------------------------------------------------------- endpoint responses
\* An endpoint that answers every returned map with the success envelope.
EndpointResponseAlwaysOk(outcome) ==
  IF outcome.raised
  THEN [status_code |-> 500,
        content |-> [detail |-> format_error_response(outcome.exc, 500)]]
  ELSE JSONResponse(200, format_success_response(outcome.value))

\* The endpoint's handling of what the service call gave: an exception goes
\* through handle_api_error, a dict with the key "error" becomes a 500, any
\* other dict the success envelope.
EndpointResponse(outcome) ==
  IF outcome.raised
  THEN [status_code |-> 500,
        content |-> [detail |-> format_error_response(outcome.exc, 500)]]
  ELSE IF "error" \in DOMAIN outcome.value
       THEN JSONResponse(500, format_error_response(outcome.value["error"], 500))
       ELSE JSONResponse(200, format_success_response(outcome.value))

\* The service call ends with `outcome` and the endpoint answers.
ServiceReturns(r, outcome) ==
  /\ ret' = [ret EXCEPT ![r] = outcome]
  /\ response' = [response EXCEPT ![r] = EndpointResponse(outcome)]
  /\ Goto(r, "done")

\* ------------------------------------------------------------------ service
\* The message of the service when the image processor reports failure.
ProcessFailedMessage(k) ==
  IF k = "upload"
  THEN <<"Failed to process the uploaded image: ", Filename>>
  ELSE <<"Failed to process the image URL: ", Url>>

\* The message of the service's except clause.
ServiceErrorMessage(k, exc) ==
  IF k = "upload"
  THEN <<"Error classifying uploaded image: ">> \o exc
  ELSE <<"Error classifying image URL: ">> \o exc

\* The service body without its except clause.
ServiceTryNoCatch(k, outcome) == outcome

\* try ... except Exception as e: return {"error": ...} around the body of
\* classify_uploaded_image / classify_image_url
ServiceTry(k, outcome) ==
  IF outcome.raised
  THEN Returned([error |-> ServiceErrorMessage(k, outcome.exc)])
  ELSE outcome

\* The service without its check of the success flag.
GoesOnRegardless(pr) == TRUE

\* "if not success: return {error: ...}": whether the service goes on to
\* classify after the image processor returned
GoesOnToClassify(pr) == pr.success

\* The three timings the service merges into processing_time.
ServiceTiming ==
  [service_total_seconds |-> "service total_time",
   image_processing_seconds |-> "service process_time",
   save_results_seconds |-> "service save_time"]

\* The service assigning its timings to processing_time instead of merging.
WithServiceTimingReplacing(res) == DictSet(res, "processing_time", ServiceTiming)

\* The service writing its total under the key the client already uses.
WithServiceTimingOverTotal(res) ==
  LET pt == IF "processing_time" \in DOMAIN res
            THEN res["processing_time"] ELSE EmptyDict
  IN  DictSet(res, "processing_time",
              DictUpdate(pt, [total_seconds |-> "service total_time",
                              image_processing_seconds |-> "service process_time",
                              save_results_seconds |-> "service save_time"]))

\* The service's last lines: processing_time is created when missing and
\* updated in place, and the result is returned.
WithServiceTiming(res) ==
  LET pt == IF "processing_time" \in DOMAIN res
            THEN res["processing_time"] ELSE EmptyDict
  IN  DictSet(res, "processing_time", DictUpdate(pt, ServiceTiming))

\* An except clause that deletes the stored image.
DirAfterClassifyErrorCleaned(dir, path) == RemoveFile(dir, path)

\* What the except clause of the service does to the data directory when the
\* classification raised: nothing.
DirAfterClassifyError(dir, path) == dir

\* The image processor's return value reaches the service.
ProcessorReturns(r, pr) ==
  /\ proc_ret' = [proc_ret EXCEPT ![r] = pr]
  /\ IF GoesOnToClassify(pr)
     THEN /\ Goto(r, "classify")
          /\ UNCHANGED <<ret, response>>
     ELSE ServiceReturns(r, Returned([error |-> ProcessFailedMessage(kind[r])]))

\* -------------------------------------------------------- image processor
ProcessorFailure == [image_path |-> NoPath, success |-> FALSE]

\* A success that does not hand the path back.
ProcessorSuccessNoPath(path) == [image_path |-> NoPath, success |-> TRUE]

\* return image_path, True
ProcessorSuccess(path) == [image_path |-> path, success |-> TRUE]

\* except Exception: return "", False  (process_uploaded_image, process_image_url)
ProcessorTry(outcome) ==
  IF outcome.raised THEN ProcessorFailure ELSE outcome.value

\* "if not success: os.remove(image_path); return '', False"
DirAfterProcessFailure(dir, path) == RemoveFile(dir, path)

\* ---------------------------------------------------------------- endpoints
\* POST /classify: the format check, then the service is called.
ReceiveUpload(r) ==
  /\ pc[r] = "idle"
  /\ \E ct \in ContentTypes :
       /\ file_content_type' = [file_content_type EXCEPT ![r] = ct]
       /\ IF ~validate_image_format(ct)
          THEN /\ response' = [response EXCEPT ![r] =
                     JSONResponse(400, format_error_response(<<"Unsupported file format: ", ct>>, 400))]
               /\ Goto(r, "done")
               /\ Logged(r, "rejected")
          ELSE /\ response' = response
               /\ Goto(r, "acquire")
               /\ Logged(r, "accepted")
  /\ kind' = [kind EXCEPT ![r] = "upload"]
  /\ UNCHANGED <<image_path, data_dir, proc_ret, result, ret, save_ret, callvars>>

\* POST /classify-url: the service is called with str(request.url).
ReceiveUrl(r) ==
  /\ pc[r] = "idle"
  /\ kind' = [kind EXCEPT ![r] = "url"]
  /\ Goto(r, "acquire")
  /\ Logged(r, "accepted")
  /\ UNCHANGED <<file_content_type, image_path, data_dir, proc_ret, result, ret,
                 response, save_ret, callvars>>

\* process_uploaded_image up to open(image_path, "wb"): a uuid is drawn and
\* the file is created, unless open raises.
OpenUpload(r) ==
  /\ pc[r] = "acquire"
  /\ kind[r] = "upload"
  /\ image_path' = [image_path EXCEPT ![r] = ImagePath(uuid4(r))]
  /\ \E open_ok \in BOOLEAN :
       IF open_ok
       THEN /\ data_dir' = WriteFile(data_dir, ImagePath(uuid4(r)), TruncatedFile)
            /\ Goto(r, "write")
            /\ Logged(r, "open")
            /\ UNCHANGED <<proc_ret, ret, response>>
       ELSE /\ data_dir' = data_dir
            /\ Logged(r, "open failed")
            /\ ProcessorReturns(r, ProcessorTry(Raised(<<"No space left on device">>)))
  /\ UNCHANGED <<kind, file_content_type, result, save_ret, callvars>>

\* The event the log keeps of the status the GET answered with.
StatusEvent(status_code) ==
  IF status_code = 200 THEN "status 200" ELSE "status not 200"

\* A download whose status is accepted whatever it is.
DownloadOkAnyStatus(status_code) == TRUE

\* "if response.status_code != 200: return '', False", negated
DownloadOk(status_code) == status_code = 200

\* process_image_url up to open(image_path, "wb"): a uuid is drawn, the GET
\* is issued (it raises, or answers with a status), and on status 200 the
\* file is created, unless open raises.
OpenDownload(r) ==
  /\ pc[r] = "acquire"
  /\ kind[r] = "url"
  /\ image_path' = [image_path EXCEPT ![r] = ImagePath(uuid4(r))]
  /\ \E get_ok \in BOOLEAN, status_code \in StatusCodes, open_ok \in BOOLEAN :
       IF ~get_ok
       THEN /\ data_dir' = data_dir
            /\ Logged(r, "fetch failed")
            /\ ProcessorReturns(r, ProcessorTry(Raised(<<"Read timed out.">>)))
       ELSE IF ~DownloadOk(status_code)
            THEN /\ data_dir' = data_dir
                 /\ log' = [log EXCEPT ![r] = @ \o <<"fetch", StatusEvent(status_code)>>]
                 /\ ProcessorReturns(r, ProcessorFailure)
            ELSE IF open_ok
                 THEN /\ data_dir' = WriteFile(data_dir, ImagePath(uuid4(r)), TruncatedFile)
                      /\ Goto(r, "write")
                      /\ log' = [log EXCEPT ![r] =
                                   @ \o <<"fetch", StatusEvent(status_code), "open">>]
                      /\ UNCHANGED <<proc_ret, ret, response>>
                 ELSE /\ data_dir' = data_dir
                      /\ log' = [log EXCEPT ![r] =
                                   @ \o <<"fetch", StatusEvent(status_code), "open failed">>]
                      /\ ProcessorReturns(r, ProcessorTry(Raised(<<"No space left on device">>)))
  /\ UNCHANGED <<kind, file_content_type, result, save_ret, callvars>>

\* buffer.write(file.file.read()) / the loop over response.iter_content:
\* either all bytes reach the file, or the read or a write raises and the
\* file stays as far as it was written.
WriteImage(r) ==
  /\ pc[r] = "write"
  /\ \E bytes \in ReceivedBytes, write_ok \in BOOLEAN :
       IF write_ok
       THEN /\ data_dir' = WriteFile(data_dir, image_path[r], bytes)
            /\ Goto(r, "validate")
            /\ Logged(r, "write")
            /\ UNCHANGED <<proc_ret, ret, response>>
       ELSE /\ data_dir' = data_dir
            /\ Logged(r, "write failed")
            /\ ProcessorReturns(r, ProcessorTry(Raised(<<"Connection broken">>)))
  /\ UNCHANGED <<kind, file_content_type, image_path, result, save_ret, callvars>>

\* _process_image going on to normalize_image whatever is_valid_image gave.
NormalizesRegardless(is_valid) == TRUE

\* "if not is_valid_image(image_path): return False": whether _process_image
\* goes on to normalize_image
GoesOnToNormalize(is_valid) == is_valid

\* _process_image, first half: is_valid_image.  On False the caller removes
\* the file and returns failure.
Validate(r) ==
  /\ pc[r] = "validate"
  /\ IF GoesOnToNormalize(IsValidImage(data_dir[image_path[r]]))
     THEN /\ Goto(r, "normalize")
          /\ Logged(r, "validate")
          /\ UNCHANGED <<data_dir, proc_ret, ret, response>>
     ELSE /\ data_dir' = DirAfterProcessFailure(data_dir, image_path[r])
          /\ log' = [log EXCEPT ![r] = @ \o <<"validate", "remove">>]
          /\ ProcessorReturns(r, ProcessorFailure)
  /\ UNCHANGED <<kind, file_content_type, image_path, result, save_ret, callvars>>

\* _process_image, second half: normalize_image.  On False the caller
\* removes the file and returns failure; on True it returns the path.
Normalize(r) ==
  /\ pc[r] = "normalize"
  /\ \E io_ok \in BOOLEAN :
       LET n == NormalizeImage(data_dir[image_path[r]], io_ok)
       IN  IF n.ok
           THEN /\ data_dir' = WriteFile(data_dir, image_path[r], n.file)
                /\ Logged(r, "normalize")
                /\ ProcessorReturns(r, ProcessorSuccess(image_path[r]))
           ELSE /\ data_dir' = DirAfterProcessFailure(
                                 WriteFile(data_dir, image_path[r], n.file), image_path[r])
                /\ log' = [log EXCEPT ![r] = @ \o <<"normalize", "remove">>]
                /\ ProcessorReturns(r, ProcessorFailure)
  /\ UNCHANGED <<kind, file_content_type, image_path, result, save_ret, callvars>>

\* ------------------------------------------------------------ results store
\* A results file: the dict json.dump wrote, or a file that was created and
\* whose text was not all written.
ResultsFile(res) == [complete |-> TRUE, json |-> res]

TruncatedResultsFile == [complete |-> FALSE, json |-> EmptyDict]

\* What can go wrong in the try block of _save_results_to_file: nothing,
\* json.dumps or open raises (no file is created), or json.dump raises after
\* the file was created.
SaveFaults == {"none", "before open", "after open"}

\* A save that deletes the stored image once the results are written.
SaveAttemptRemovingImage(dir, res, path, fault) ==
  CASE fault = "none" ->
         [dir |-> RemoveFile(WriteFile(dir, ResultsPath(path), ResultsFile(res)), path),
          outcome |-> Returned([results_path |-> ResultsPath(path), success |-> TRUE])]
    [] fault = "before open" ->
         [dir |-> dir, outcome |-> Raised(<<"Permission denied">>)]
    [] OTHER ->
         [dir |-> WriteFile(dir, ResultsPath(path), TruncatedResultsFile),
          outcome |-> Raised(<<"No space left on device">>)]

\* The try block of _save_results_to_file: the directory afterwards, and the
\* block's outcome.
SaveAttempt(dir, res, path, fault) ==
  CASE fault = "none" ->
         [dir |-> WriteFile(dir, ResultsPath(path), ResultsFile(res)),
          outcome |-> Returned([results_path |-> ResultsPath(path), success |-> TRUE])]
    [] fault = "before open" ->
         [dir |-> dir, outcome |-> Raised(<<"Permission denied">>)]
    [] OTHER ->
         [dir |-> WriteFile(dir, ResultsPath(path), TruncatedResultsFile),
          outcome |-> Raised(<<"No space left on device">>)]

\* _save_results_to_file without its except clause.
SaveTryNoCatch(outcome) == outcome

\* except Exception: return "", False  (_save_results_to_file)
SaveTry(outcome) ==
  IF outcome.raised
  THEN Returned([results_path |-> NoPath, success |-> FALSE])
  ELSE outcome

\* ------------------------------------------------------- service, continued
\* self.model.classify_image(image_path): the image is read and encoded, the
\* remote model is called, its response is processed.  An exception reaches
\* the service's except clause.
Classify(r) ==
  /\ pc[r] = "classify"
  /\ \E api \in ApiOutcomes :
       LET path == proc_ret[r].image_path
           readable == Exists(data_dir, path)
           out == IF readable
                  THEN ClassifyImage(api, path)
                  ELSE Raised(<<"No such file or directory">>)
       IN  /\ log' = [log EXCEPT ![r] =
                        @ \o (IF ~readable THEN <<"encode failed">>
                              ELSE IF api.raised THEN <<"encode", "model", "model raised">>
                              ELSE <<"encode", "model", "model returned">>)]
           /\ IF out.raised
              THEN /\ ServiceReturns(r, ServiceTry(kind[r], out))
                   /\ data_dir' = DirAfterClassifyError(data_dir, path)
                   /\ result' = result
              ELSE /\ result' = [result EXCEPT ![r] = out.value]
                   /\ Goto(r, "save")
                   /\ UNCHANGED <<ret, response, data_dir>>
  /\ UNCHANGED <<kind, file_content_type, image_path, proc_ret, save_ret, callvars>>

\* self._save_results_to_file(result, image_path), then the service timing is
\* merged into the result, the result is returned and the endpoint answers.
Save(r) ==
  /\ pc[r] = "save"
  /\ \E fault \in SaveFaults :
       LET a == SaveAttempt(data_dir, result[r], proc_ret[r].image_path, fault)
           saved == SaveTry(a.outcome)
       IN  /\ data_dir' = a.dir
           /\ Logged(r, IF fault = "before open" THEN "save failed" ELSE "save")
           /\ save_ret' = [save_ret EXCEPT ![r] =
                             IF saved.raised THEN [NoSaveRet EXCEPT !.called = TRUE]
                             ELSE [results_path |-> saved.value.results_path,
                                   success |-> saved.value.success,
                                   called |-> TRUE]]
           /\ ServiceReturns(r, ServiceTry(kind[r],
                                            IF saved.raised THEN Raised(saved.exc)
                                            ELSE Returned(WithServiceTiming(result[r]))))
  /\ UNCHANGED <<kind, file_content_type, image_path, proc_ret, result, callvars>>

\* ------------------------------------------------- _process_response alone
\* Longest payload text.
MaxText == 5

\* The characters payload texts are made of.
TextChars == {"{", "}", "F", BT}

RECURSIVE Texts(_)
Texts(n) ==
  IF n = 0 THEN {<< >>}
  ELSE Texts(n - 1) \cup {Append(t, c) : t \in Texts(n - 1), c \in TextChars}

\* The three ways the model wraps its payload.
Wrappings == {"json fence", "bare fence", "unwrapped"}

\* The response text that wraps payload p in the way w.
Wrap(w, p) ==
  CASE w = "json fence" -> FenceJson \o <<" ">> \o p \o <<" ">> \o Fence
    [] w = "bare fence" -> Fence \o <<" ">> \o p \o <<" ">> \o Fence
    [] OTHER -> <<" ">> \o p \o <<" ">>

\* The image_path argument of the calls.
ResponsePath == ImagePath(1)

ParseInit ==
  /\ NoRequests
  /\ payload \in Texts(MaxText)
  /\ parsed = << >>
  /\ NoImageCalls
  /\ NoClientCalls
  /\ NoTimedCalls
  /\ NoLoggingCalls

\* _process_response(response, image_path) on the payload wrapped in way w
ParseWrapped(w) ==
  /\ w \notin DOMAIN parsed
  /\ parsed' = [x \in (DOMAIN parsed) \cup {w} |->
                  IF x = w
                  THEN ProcessResponse(Content(Wrap(w, payload)), ResponsePath)
                  ELSE parsed[x]]
  /\ UNCHANGED <<reqvars, payload, imagevars, clientvars, timevars, logvars>>

ParseJsonFenced == ParseWrapped("json fence")

ParseBareFenced == ParseWrapped("bare fence")

ParseUnwrapped == ParseWrapped("unwrapped")

ParseNext == ParseJsonFenced \/ ParseBareFenced \/ ParseUnwrapped

ParseSpec == ParseInit /\ [][ParseNext]_vars

\* ---------------------------------------------------- image utilities alone
\* Number of successive calls of normalize_image on one file.
MaxRuns == 2

\* Formats PIL detects, modes, pixel dimensions and byte sizes of the files
\* the utilities are applied to.  An image Image.open returns has a format.
Formats == {"JPEG", "PNG", "WEBP", "GIF", "MPO"}

Modes == {"RGB", "RGBA"}

Dims == {1, 561, 1000, 1024, 1025, 1122, 1500, 2000, 5000}

Sizes == {MAX_IMAGE_SIZE - 1, MAX_IMAGE_SIZE, MAX_IMAGE_SIZE + 1}

Images ==
  {ImageFile(TRUE, f, m, w, h, n) :
     f \in Formats, m \in Modes, w \in Dims, h \in Dims, n \in Sizes}
    \cup {ImageFile(FALSE, "", "", 0, 0, n) : n \in Sizes}

ImageInit ==
  /\ NoRequests
  /\ NoParseCalls
  /\ img \in Images
  /\ valid = << >>
  /\ normalized = << >>
  /\ NoClientCalls
  /\ NoTimedCalls
  /\ NoLoggingCalls

\* is_valid_image(image_path) on the file
CallIsValidImage ==
  /\ valid = << >>
  /\ valid' = <<IsValidImage(img)>>
  /\ UNCHANGED <<reqvars, parsevars, img, normalized, clientvars, timevars, logvars>>

\* normalize_image(image_path): on the file, then on what an earlier call
\* that returned True left at the path.  io_ok is whether img.save succeeds.
CallNormalizeImage ==
  /\ Len(normalized) < MaxRuns
  /\ normalized # << >> => normalized[Len(normalized)].ret.ok
  /\ \E io_ok \in BOOLEAN :
       LET file == IF normalized = << >> THEN img
                   ELSE normalized[Len(normalized)].ret.file
       IN  normalized' = Append(normalized,
                                [io_ok |-> io_ok, ret |-> NormalizeImage(file, io_ok)])
  /\ UNCHANGED <<reqvars, parsevars, img, valid, clientvars, timevars, logvars>>

ImageNext == CallIsValidImage \/ CallNormalizeImage

ImageSpec == ImageInit /\ [][ImageNext]_vars

\* ------------------------------------------------------ classify_image alone
\* How many members the JSON object of a response has at most.
MaxMembers == 2

RECURSIVE Bodies(_)
Bodies(n) ==
  IF n = 0 THEN {<< >>}
  ELSE LET shorter == Bodies(n - 1)
       IN  shorter \cup {Append(b, m) : b \in shorter, m \in MemberSyms}

\* The payloads of a response: a JSON object, a JSON value that is no
\* object, text that is no JSON, no text.
Payloads ==
  {<<"{">> \o b \o <<"}">> : b \in Bodies(MaxMembers)}
    \cup {ScalarText, <<"s", "o", "s", "o">>, << >>}

\* response.choices[0].message.content of a remote call that returned
ResponseContents ==
  {NoneContent, Content(<< >>)}
    \cup {Content(Wrap(w, p)) : w \in Wrappings, p \in Payloads}

ClientInit ==
  /\ NoRequests
  /\ NoParseCalls
  /\ NoImageCalls
  /\ api_response \in ResponseContents
  /\ classified = << >>
  /\ NoTimedCalls
  /\ NoLoggingCalls

\* classify_image(image_path) whose remote call returns api_response
CallClassifyImage ==
  /\ classified = << >>
  /\ classified' = <<ClassifyImage(Returned(api_response), ResponsePath)>>
  /\ UNCHANGED <<reqvars, parsevars, imagevars, api_response, timevars, logvars>>

ClientNext == CallClassifyImage

ClientSpec == ClientInit /\ [][ClientNext]_vars

\* ------------------------------------------- the timing of classify_image
\* The last value of the clock.  A tick is a hundredth of a second.
MaxClock == 4

\* The time.time() calls of classify_image, in the order of execution.
MarkNames ==
  <<"start_time", "encode_start", "encode_end", "api_start", "api_end",
    "process_start", "process_end", "end_time">>

Mark(m, name) == m[CHOOSE i \in DOMAIN MarkNames : MarkNames[i] = name]

\* round(seconds, 2) of a duration of whole hundredths, in hundredths
Round2(ticks) == (ticks * 100 + 50) \div 100

\* A processing_time dict whose total runs from the start of the encoding.
ProcessingTimeFromEncodeStart(m) ==
  [total_seconds |-> Round2(Mark(m, "end_time") - Mark(m, "encode_start")),
   api_seconds |-> Round2(Mark(m, "api_end") - Mark(m, "api_start")),
   encode_seconds |-> Round2(Mark(m, "encode_end") - Mark(m, "encode_start")),
   process_seconds |->
     Round2(Mark(m, "process_end") - Mark(m, "process_start"))]

\* result["processing_time"] of classify_image from the clock values m
ProcessingTime(m) ==
  [total_seconds |-> Round2(Mark(m, "end_time") - Mark(m, "start_time")),
   api_seconds |-> Round2(Mark(m, "api_end") - Mark(m, "api_start")),
   encode_seconds |-> Round2(Mark(m, "encode_end") - Mark(m, "encode_start")),
   process_seconds |->
     Round2(Mark(m, "process_end") - Mark(m, "process_start"))]

TimingInit ==
  /\ NoRequests
  /\ NoParseCalls
  /\ NoImageCalls
  /\ NoClientCalls
  /\ NoTimedCalls
  /\ NoLoggingCalls

\* Time passes: while a stage runs, and between two stages (logging, the
\* construction of the prompt).  The clock never goes back.
Tick ==
  /\ clock < MaxClock
  /\ clock' = clock + 1
  /\ UNCHANGED <<reqvars, parsevars, imagevars, clientvars, marks, timing,
                 logvars>>

\* The next time.time() call of classify_image
TimeTime ==
  /\ Len(marks) < Len(MarkNames)
  /\ marks' = Append(marks, clock)
  /\ UNCHANGED <<reqvars, parsevars, imagevars, clientvars, clock, timing,
                 logvars>>

\* result["processing_time"] = {...}
AttachProcessingTime ==
  /\ Len(marks) = Len(MarkNames)
  /\ timing = << >>
  /\ timing' = <<ProcessingTime(marks)>>
  /\ UNCHANGED <<reqvars, parsevars, imagevars, clientvars, clock, marks,
                 logvars>>

TimingNext == Tick \/ TimeTime \/ AttachProcessingTime

TimingSpec == TimingInit /\ [][TimingNext]_vars

\* ------------------------------------------------------------ setup_logging
\* How many times a thread calls setup_logging at most.
MaxCalls == 2

\* The loggers of the standard library that are handed to loguru.
LoggerNames ==
  {"uvicorn", "uvicorn.error", "uvicorn.access", "fastapi", "streamlit"}

LoggingInit ==
  /\ NoRequests
  /\ NoParseCalls
  /\ NoImageCalls
  /\ NoClientCalls
  /\ NoTimedCalls
  /\ NoLoggingCalls

\* Thread t goes from one statement of setup_logging to the next.
Goes(t, from, to) ==
  /\ caller[t] = from
  /\ caller' = [caller EXCEPT ![t] = to]

\* setup_logging() is called: at the import of app.api.main, at every run
\* of the Streamlit script app/main.py.
CallSetupLogging(t) ==
  /\ calls[t] < MaxCalls
  /\ Goes(t, "idle", "check")
  /\ calls' = [calls EXCEPT ![t] = @ + 1]
  /\ UNCHANGED <<reqvars, parsevars, imagevars, clientvars, timevars,
                 logging_initialized, handlers, bodies>>

\* if _logging_initialized: return
CheckInitialized(t) ==
  /\ Goes(t, "check", IF logging_initialized THEN "idle" ELSE "makedirs")
  /\ UNCHANGED <<reqvars, parsevars, imagevars, clientvars, timevars,
                 logging_initialized, handlers, calls, bodies>>

\* os.makedirs("logs", exist_ok=True)
MakeLogsDir(t) ==
  /\ Goes(t, "makedirs", "remove")
  /\ UNCHANGED <<reqvars, parsevars, imagevars, clientvars, timevars,
                 logging_initialized, handlers, calls, bodies>>

\* logger.remove(): the handler-installation body begins.
RemoveHandlers(t) ==
  /\ Goes(t, "remove", "console")
  /\ handlers' = [handlers EXCEPT !.sinks = << >>]
  /\ bodies' = bodies + 1
  /\ UNCHANGED <<reqvars, parsevars, imagevars, clientvars, timevars,
                 logging_initialized, calls>>

\* logger.add(sink, ...)
AddSink(t, from, sink, to) ==
  /\ Goes(t, from, to)
  /\ handlers' = [handlers EXCEPT !.sinks = Append(@, sink)]
  /\ UNCHANGED <<reqvars, parsevars, imagevars, clientvars, timevars,
                 logging_initialized, calls, bodies>>

AddConsole(t) == AddSink(t, "console", "stderr", "app_log")

AddAppLog(t) == AddSink(t, "app_log", "logs/app.log", "error_log")

AddErrorLog(t) == AddSink(t, "error_log", "logs/error.log", "basicConfig")

\* logging.basicConfig(handlers=[InterceptHandler()], level=0)
BasicConfig(t) ==
  /\ Goes(t, "basicConfig", "intercept")
  /\ handlers' = [handlers EXCEPT !.root = TRUE]
  /\ UNCHANGED <<reqvars, parsevars, imagevars, clientvars, timevars,
                 logging_initialized, calls, bodies>>

\* for _log in [...]: _logger.handlers = [InterceptHandler()]
InterceptLoggers(t) ==
  /\ Goes(t, "intercept", "flag")
  /\ handlers' = [handlers EXCEPT !.intercepted = LoggerNames]
  /\ UNCHANGED <<reqvars, parsevars, imagevars, clientvars, timevars,
                 logging_initialized, calls, bodies>>

\* _logging_initialized = True, the last statement of the function
SetInitialized(t) ==
  /\ Goes(t, "flag", "idle")
  /\ logging_initialized' = TRUE
  /\ UNCHANGED <<reqvars, parsevars, imagevars, clientvars, timevars,
                 handlers, calls, bodies>>

LoggingNext ==
  \E t \in Callers :
    \/ CallSetupLogging(t)
    \/ CheckInitialized(t)
    \/ MakeLogsDir(t)
    \/ RemoveHandlers(t)
    \/ AddConsole(t)
    \/ AddAppLog(t)
    \/ AddErrorLog(t)
    \/ BasicConfig(t)
    \/ InterceptLoggers(t)
    \/ SetInitialized(t)

LoggingSpec == LoggingInit /\ [][LoggingNext]_vars

\* ----------------------------------------------------------- specification
Next ==
  \E r \in Reqs :
    \/ ReceiveUpload(r)
    \/ ReceiveUrl(r)
    \/ OpenUpload(r)
    \/ OpenDownload(r)
    \/ WriteImage(r)
    \/ Validate(r)
    \/ Normalize(r)
    \/ Classify(r)
    \/ Save(r)

Spec == Init /\ [][Next]_vars

\* ------------------------------------------------------------------- claims
\* ev is among the operations request r has performed
Occurs(r, ev) == \E i \in DOMAIN log[r] : log[r][i] = ev

\* The service was called for request r and has returned.
ServiceDone(r) == pc[r] = "done" /\ Occurs(r, "accepted")

\* The results file a request writes for its image.
OwnResultsPath(r) == ResultsPath(ImagePath(uuid4(r)))

\* The single-field Error Result {error: message}
IsErrorResult(v) == DOMAIN v = {"error"}

\* A result of the classifier client as the service returns it.
IsResultMap(v) == {"image_path", "processing_time"} \subseteq DOMAIN v

\* C1: whatever stage fails, the service call of a request never ends with an
\* exception raised to its caller: it returns either a classification result
\* map or the map {error: message}.
C1_ServiceNeverRaises ==
  \A r \in Reqs :
    ServiceDone(r) =>
      /\ ~ret[r].raised
      /\ IsErrorResult(ret[r].value) \/ IsResultMap(ret[r].value)

\* A request whose remote call raised and whose service call returned.
C1_Witness ==
  \E r \in Reqs :
    /\ ServiceDone(r)
    /\ Occurs(r, "model raised")
    /\ IsErrorResult(ret[r].value)

\* C2: when the remote call succeeded and its text is no JSON, the degraded
\* result reaches the API caller in the success envelope (status 200), still
\* carrying the error field and the raw model text.
C2_DegradedResultIsSuccess ==
  \A r \in Reqs :
    (/\ pc[r] = "done"
     /\ "raw_response" \in DOMAIN result[r]) =>
      /\ response[r].status_code = 200
      /\ response[r].content.success
      /\ "error" \in DOMAIN response[r].content.data
      /\ "raw_response" \in DOMAIN response[r].content.data
      /\ response[r].content.data["raw_response"] = result[r]["raw_response"]

FailedToProcessPrefixes ==
  {"Failed to process the uploaded image: ", "Failed to process the image URL: "}

\* C3: when the image processor returns success = false, the service returns
\* an Error Result whose message starts with "Failed to process the", the
\* remote model is never invoked and no results file is written.
C3_ProcessFailureShortCircuits ==
  \A r \in Reqs :
    (ServiceDone(r) /\ ~proc_ret[r].success) =>
      /\ ret[r] = Returned([error |-> ret[r].value["error"]])
      /\ ret[r].value["error"][1] \in FailedToProcessPrefixes
      /\ ~Occurs(r, "encode") /\ ~Occurs(r, "model")
      /\ ~save_ret[r].called
      /\ ~Exists(data_dir, OwnResultsPath(r))

\* A request whose image failed validation.
C3_Witness ==
  \E r \in Reqs :
    /\ ServiceDone(r)
    /\ ~proc_ret[r].success
    /\ Occurs(r, "validate")

\* C4: when the remote call raises, the classifier client lets the exception
\* through, the service returns the single-field Error Result whose message
\* contains the exception's text, and no results file is written.
C4_TransportFailureIsErrorResult ==
  \A r \in Reqs :
    (pc[r] = "done" /\ Occurs(r, "model raised")) =>
      /\ ~ret[r].raised
      /\ IsErrorResult(ret[r].value)
      /\ Contains(ret[r].value["error"], TransportError)
      /\ ~save_ret[r].called
      /\ ~Exists(data_dir, OwnResultsPath(r))

\* An upload whose remote call raised.
C4_Witness ==
  \E r \in Reqs :
    /\ pc[r] = "done"
    /\ kind[r] = "upload"
    /\ Occurs(r, "model raised")
    /\ response[r].status_code = 500

\* C5: a failure of the save step does not make the request fail: the save
\* step reports ("", False) and the service returns the classification
\* result, with every field the classifier client gave it.
C5_SaveFailureKeepsResult ==
  \A r \in Reqs :
    (pc[r] = "done" /\ save_ret[r].called /\ ~save_ret[r].success) =>
      /\ save_ret[r].results_path = NoPath
      /\ ~ret[r].raised
      /\ ~IsErrorResult(ret[r].value)
      /\ DOMAIN ret[r].value = DOMAIN result[r]
      /\ \A k \in DOMAIN result[r] \ {"processing_time"} :
           ret[r].value[k] = result[r][k]

\* A request whose save failed and that returned the full classification.
C5_Witness ==
  \E r \in Reqs :
    /\ pc[r] = "done"
    /\ save_ret[r].called
    /\ ~save_ret[r].success
    /\ CategoryKeys \subseteq DOMAIN ret[r].value

\* The request failed in validation, in normalization or in the remote call.
FailedAfterAcquisition(r) ==
  \/ Occurs(r, "validate") /\ ~proc_ret[r].success
  \/ Occurs(r, "model raised")

\* C6: whenever a request ends in failure at a stage after acquisition
\* (validation, normalization, remote call), its stored image file has been
\* deleted by the time the service returns.
C6_NoOrphanedImage ==
  \A r \in Reqs :
    (pc[r] = "done" /\ FailedAfterAcquisition(r)) =>
      ~Exists(data_dir, ImagePath(uuid4(r)))

\* C7: when the remote call raises after the image was acquired and
\* normalized, the service returns {error: message}, the request has no
\* results file, and its stored image file is still in the data directory.
C7_ImageKeptOnClassifyFailure ==
  \A r \in Reqs :
    (pc[r] = "done" /\ Occurs(r, "normalize") /\ Occurs(r, "model raised")) =>
      /\ IsErrorResult(ret[r].value)
      /\ ~Exists(data_dir, OwnResultsPath(r))
      /\ Exists(data_dir, ImagePath(uuid4(r)))
      /\ data_dir[ImagePath(uuid4(r))].complete

\* A URL request whose remote call raised.
C7_Witness ==
  \E r \in Reqs :
    /\ pc[r] = "done"
    /\ kind[r] = "url"
    /\ Occurs(r, "normalize")
    /\ Occurs(r, "model raised")

\* The image processor has returned for request r.
ProcessorDone(r) ==
  Occurs(r, "accepted") /\ pc[r] \in {"classify", "save", "done"}

\* C8: whenever the image processor returns failure, on every failure path,
\* no image file created by that call is left in the data directory.
C8_NoFileLeftOnProcessorFailure ==
  \A r \in Reqs :
    (ProcessorDone(r) /\ ~proc_ret[r].success) =>
      ~Exists(data_dir, ImagePath(uuid4(r)))

ServiceTimingKeys ==
  {"service_total_seconds", "image_processing_seconds", "save_results_seconds"}

\* C9 as stated: for every request whose results file was written, the
\* content of the file equals the map the service returns.
C9_FileEqualsReturnedMap ==
  \A r \in Reqs :
    (pc[r] = "done" /\ save_ret[r].success) =>
      /\ Exists(data_dir, OwnResultsPath(r))
      /\ data_dir[OwnResultsPath(r)].json = ret[r].value

\* C9 as amended: for every request whose save succeeded, the results file
\* holds the map the classifier client returned, and the map the service
\* returns equals it key for key and value for value, except that its
\* processing_time holds the three service timings in addition.
C9_FileEqualsClientResult ==
  \A r \in Reqs :
    (pc[r] = "done" /\ save_ret[r].success) =>
      /\ save_ret[r].results_path = OwnResultsPath(r)
      /\ Exists(data_dir, OwnResultsPath(r))
      /\ data_dir[OwnResultsPath(r)] = ResultsFile(result[r])
      /\ LET file == data_dir[OwnResultsPath(r)].json
             out == ret[r].value
         IN  /\ DOMAIN out = DOMAIN file
             /\ \A k \in DOMAIN file \ {"processing_time"} : out[k] = file[k]
             /\ DOMAIN out["processing_time"] =
                  DOMAIN file["processing_time"] \cup ServiceTimingKeys
             /\ \A k \in DOMAIN file["processing_time"] :
                  out["processing_time"][k] = file["processing_time"][k]

\* A request that returned the full classification and saved it.
C9_Witness ==
  \E r \in Reqs :
    /\ pc[r] = "done"
    /\ save_ret[r].success
    /\ CategoryKeys \subseteq DOMAIN ret[r].value
    /\ response[r].status_code = 200

\* C10: every result the classifier client returns either holds all three
\* fields of each of the 8 categories or is in degraded form (it carries an
\* error field).
C10_FullOrDegraded ==
  \A r \in Reqs :
    (Occurs(r, "model returned") /\ pc[r] \in {"save", "done"}
       /\ "image_path" \in DOMAIN result[r]) =>
      \/ CategoryKeys \subseteq DOMAIN result[r]
      \/ "error" \in DOMAIN result[r]

\* C11: for every JSON object payload, payloads whose string values hold
\* backticks included, _process_response gives the same parsed object for
\* the payload in a json fence, in a bare fence and unwrapped between
\* whitespace: the parse of the payload with image_path added.
C11_WrappingsAgree ==
  IsObjectText(payload) =>
    \A w \in DOMAIN parsed :
      parsed[w] = Returned(DictSet(JsonLoads(payload).value, "image_path", ResponsePath))

\* C12: when the payload extracted from a response text is not valid JSON,
\* _process_response raises nothing and returns exactly image_path, the error
\* "Failed to parse model response" and raw_response, the response text as
\* it was received.
C12_ParseFailureKeepsRawText ==
  \A w \in DOMAIN parsed :
    ~JsonLoads(ExtractJsonStr(Wrap(w, payload))).ok =>
      parsed[w] = Returned([image_path |-> ResponsePath,
                            error |-> <<"Failed to parse model response">>,
                            raw_response |-> Wrap(w, payload)])

C12_Witness ==
  /\ DOMAIN parsed = Wrappings
  /\ \A w \in Wrappings :
       /\ ~parsed[w].raised
       /\ "raw_response" \in DOMAIN parsed[w].value
  /\ parsed["unwrapped"].value["raw_response"]
       # Strip(parsed["unwrapped"].value["raw_response"])


\* str.lower() on the declared content types
LowerType(t) == IF t = "IMAGE/PNG" THEN "image/png" ELSE t

\* C13: an upload whose declared content type is none of image/jpeg,
\* image/jpg, image/png, image/webp is answered with status 400 and an error
\* envelope whose message starts with "Unsupported file format"; the service
\* is never called for it and no file is written.
C13_UnsupportedTypeRejected ==
  \A r \in Reqs :
    (kind[r] = "upload"
       /\ file_content_type[r] \notin {"image/jpeg", "image/jpg", "image/png", "image/webp"})
    => /\ pc[r] = "done"
       /\ response[r] =
            [status_code |-> 400,
             content |-> [success |-> FALSE,
                          error |-> [message |-> <<"Unsupported file format: ",
                                                   file_content_type[r]>>,
                                     code |-> 400]]]
       /\ log[r] = <<"rejected">>
       /\ ret[r] = NoOutcome
       /\ proc_ret[r] = NoProcRet
       /\ image_path[r] = NoPath
       /\ ~Exists(data_dir, ImagePath(uuid4(r)))
       /\ ~Exists(data_dir, OwnResultsPath(r))

C13_Witness ==
  \E r \in Reqs :
    /\ kind[r] = "upload"
    /\ file_content_type[r] = "text/plain"
    /\ response[r].status_code = 400

\* C14: the declared content type is compared without regard to case: an
\* upload whose type is an upper/lower-case variant of a supported type
\* passes validate_image_format and is accepted.
C14_CaseInsensitiveAccepted ==
  \A r \in Reqs :
    (kind[r] = "upload" /\ LowerType(file_content_type[r]) \in supported_formats)
    => /\ validate_image_format(file_content_type[r])
       /\ Occurs(r, "accepted")

\* C15: for an accepted request of either endpoint, a returned map with the
\* key error is answered with status 500 and {success: false, error:
\* {message: that error, code: 500}}; any other returned map with status 200
\* and {success: true, data: the map unchanged}.
C15_EnvelopeFollowsErrorKey ==
  \A r \in Reqs :
    (ServiceDone(r) /\ ~ret[r].raised) =>
      IF "error" \in DOMAIN ret[r].value
      THEN response[r] =
             [status_code |-> 500,
              content |-> [success |-> FALSE,
                           error |-> [message |-> ret[r].value["error"],
                                      code |-> 500]]]
      ELSE response[r] =
             [status_code |-> 200,
              content |-> [success |-> TRUE, data |-> ret[r].value]]

C15_Witness ==
  \E r, q \in Reqs :
    /\ ServiceDone(r) /\ kind[r] = "upload"
    /\ "error" \in DOMAIN ret[r].value
    /\ response[r].status_code = 500
    /\ ServiceDone(q) /\ kind[q] = "url"
    /\ "error" \notin DOMAIN ret[q].value
    /\ response[q].status_code = 200

\* C16: when the GET of a URL request answers with a status other than 200,
\* process_image_url returns ("", False) and has created no file, the
\* service returns exactly {error: "Failed to process the image URL: <url>"}
\* and the remote model is not called.
C16_BadStatusEndsRequest ==
  \A r \in Reqs :
    Occurs(r, "status not 200") =>
      /\ pc[r] = "done"
      /\ proc_ret[r] = [image_path |-> NoPath, success |-> FALSE]
      /\ ~Occurs(r, "open")
      /\ ~Exists(data_dir, ImagePath(uuid4(r)))
      /\ ~Exists(data_dir, OwnResultsPath(r))
      /\ ret[r] = Returned([error |-> <<"Failed to process the image URL: ", Url>>])
      /\ ~Occurs(r, "model")

C16_Witness ==
  \E r \in Reqs :
    /\ kind[r] = "url"
    /\ log[r] = <<"accepted", "fetch", "status not 200">>
    /\ response[r].status_code = 500

\* Request r performs ev in the step.
Performs(r, ev) ==
  \E i \in (Len(log[r]) + 1)..Len(log'[r]) : log'[r][i] = ev

\* C17: normalize_image is called only on a stored image that is_valid_image
\* was called on before and accepts; a stored image that fails validation is
\* never given other content (it is removed).
C17_ValidateBeforeNormalize ==
  [][\A r \in Reqs :
       LET p == ImagePath(uuid4(r))
       IN  /\ Performs(r, "normalize") =>
                /\ Occurs(r, "validate")
                /\ IsValidImage(data_dir[p])
           /\ (Exists(data_dir, p) /\ data_dir[p].complete /\ ~IsValidImage(data_dir[p]))
                => (~Exists(data_dir', p) \/ data_dir'[p] = data_dir[p])]_vars

C17_Witness ==
  \E r, q \in Reqs :
    /\ Occurs(r, "validate") /\ Occurs(r, "normalize")
    /\ Occurs(q, "validate") /\ ~Occurs(q, "normalize") /\ Occurs(q, "remove")

\* C18: is_valid_image raises nothing and returns True exactly when the file
\* decodes as an image, its detected format is one of the supported ones
\* (JPEG, PNG, WEBP) and its size is at most MAX_IMAGE_SIZE, the maximum
\* itself included; a larger file, another format and a file that does not
\* decode give False.
C18_ValidExactly ==
  valid # << >> =>
    valid[1] = (/\ img.decodes
                /\ img.format \in {"JPEG", "PNG", "WEBP"}
                /\ img.size <= 10 * 1024 * 1024)

C18_Witness ==
  /\ valid = <<TRUE>>
  /\ img.size = 10 * 1024 * 1024

\* min(w, h) * 1024 / max(w, h) rounded to the nearest integer
NearestScaled(small, big) == (2 * small * 1024 + big) \div (2 * big)

\* C19: normalize_image gives an image whose larger dimension exceeds 1024
\* the larger dimension 1024 and the other dimension min * 1024 / max
\* rounded to the nearest integer; an image with both dimensions at most
\* 1024 keeps its dimensions.
C19_ResizeRoundsToNearest ==
  (normalized # << >> /\ normalized[1].ret.ok) =>
    LET out == normalized[1].ret.file
    IN  IF img.width <= 1024 /\ img.height <= 1024
        THEN out.width = img.width /\ out.height = img.height
        ELSE IF img.width >= img.height
             THEN /\ out.width = 1024
                  /\ out.height = NearestScaled(img.height, img.width)
             ELSE /\ out.height = 1024
                  /\ out.width = NearestScaled(img.width, img.height)

\* C20: when normalize_image succeeded on an image, a second call on its
\* output whose save succeeds returns True as well and leaves the mode RGB
\* and the width and the height as they were, both at most 1024.
C20_NormalizeIdempotent ==
  (Len(normalized) >= 2 /\ normalized[1].ret.ok /\ normalized[2].io_ok) =>
    LET first == normalized[1].ret.file
        second == normalized[2].ret.file
    IN  /\ normalized[2].ret.ok
        /\ first.mode = "RGB" /\ second.mode = "RGB"
        /\ second.width = first.width /\ second.height = first.height
        /\ second.width <= 1024 /\ second.height <= 1024

C20_Witness ==
  /\ Len(normalized) = 2
  /\ normalized[2].ret.ok
  /\ img.mode = "RGBA"
  /\ img.width = 2000 /\ img.height = 1122

\* The keys the classifier client puts into processing_time.
ClientTimingKeys ==
  {"total_seconds", "api_seconds", "encode_seconds", "process_seconds"}

\* The classifier client returned a result for request r and the service
\* has returned.
ClassifiedAndDone(r) ==
  ServiceDone(r) /\ (Occurs(r, "save") \/ Occurs(r, "save failed"))

\* C21: when acquisition, normalization and the remote call of a request
\* went through, the processing_time of the map the service returns holds the
\* three service keys and, with the values the classifier client gave them,
\* the client's four keys.
C21_ServiceTimingAdded ==
  \A r \in Reqs :
    ClassifiedAndDone(r) =>
      /\ ~ret[r].raised
      /\ "processing_time" \in DOMAIN ret[r].value
      /\ LET pt == ret[r].value["processing_time"]
             client == result[r]["processing_time"]
         IN  /\ DOMAIN client = ClientTimingKeys
             /\ DOMAIN pt = ClientTimingKeys \cup ServiceTimingKeys
             /\ \A k \in ClientTimingKeys : pt[k] = client[k]

C21_Witness ==
  \E r \in Reqs :
    /\ ClassifiedAndDone(r)
    /\ kind[r] = "url"
    /\ ServiceTimingKeys \subseteq DOMAIN ret[r].value["processing_time"]
    /\ "raw_response" \in DOMAIN ret[r].value

\* C22: the pair the image processor returns has success false exactly when
\* its path is empty; with success true the path lies in the data directory,
\* its file exists, and the file went through validation and normalization.
C22_PathIffSuccess ==
  \A r \in Reqs :
    ProcessorDone(r) =>
      /\ (~proc_ret[r].success) <=> (proc_ret[r].image_path = NoPath)
      /\ proc_ret[r].success =>
           /\ proc_ret[r].image_path = <<DATA_DIR, uuid4(r), ".jpg">>
           /\ Exists(data_dir, proc_ret[r].image_path)
           /\ Occurs(r, "validate") /\ Occurs(r, "normalize")
           /\ ~Occurs(r, "remove")
           /\ LET file == data_dir[proc_ret[r].image_path]
              IN  /\ file.decodes
                  /\ file.format = "JPEG" /\ file.mode = "RGB"
                  /\ file.width <= 1024 /\ file.height <= 1024
                  /\ file.size <= 10 * 1024 * 1024

C22_Witness ==
  \E r, q \in Reqs :
    /\ ProcessorDone(r) /\ proc_ret[r].success /\ kind[r] = "upload"
    /\ ProcessorDone(q) /\ ~proc_ret[q].success /\ kind[q] = "url"
    /\ Occurs(q, "write failed")

\* Where in its history request r performed ev (ev was performed).
Pos(r, ev) == CHOOSE i \in DOMAIN log[r] : log[r][i] = ev

\* What a request may do right after ev: the stages in their order, each
\* stage after the success of the one before.  No operation comes back, so
\* no operation is performed twice; nothing follows a failure.
ComesAfter(ev) ==
  CASE ev = "accepted" -> {"fetch", "fetch failed", "open", "open failed"}
    [] ev = "fetch" -> {"status 200", "status not 200"}
    [] ev = "status 200" -> {"open", "open failed"}
    [] ev = "open" -> {"write", "write failed"}
    [] ev = "write" -> {"validate"}
    [] ev = "validate" -> {"normalize", "remove"}
    [] ev = "normalize" -> {"encode", "remove"}
    [] ev = "encode" -> {"model"}
    [] ev = "model" -> {"model returned", "model raised"}
    [] ev = "model returned" -> {"save", "save failed"}
    [] OTHER -> {}

\* C23: within a request the fetch, the validation, the normalization, the
\* remote call and the write of the results file happen at most once each
\* and in that order, a stage begins only when the stage before it succeeded,
\* and a failed fetch or a failed remote call ends the request.
C23_StagesOnceInOrder ==
  \A r \in Reqs :
    LET h == log[r]
    IN  /\ \A i \in 1..(Len(h) - 1) : h[i + 1] \in ComesAfter(h[i])
        /\ Len(h) >= 1 => h[1] \in {"accepted", "rejected"}
        /\ Len(h) >= 2 =>
             h[2] \in (IF kind[r] = "url" THEN {"fetch", "fetch failed"}
                       ELSE {"open", "open failed"})
        /\ (Len(h) >= 1 /\ ComesAfter(h[Len(h)]) = {}) => pc[r] = "done"
        /\ \A i \in DOMAIN h : h[i] = "encode" => proc_ret[r].success

C23_Witness ==
  \E r, q \in Reqs :
    /\ log[r] = <<"accepted", "fetch", "status 200", "open", "write", "validate",
                  "normalize", "encode", "model", "model returned", "save">>
    /\ log[q] = <<"accepted", "fetch failed">>

\* Request q takes the step.
Acts(q) == log'[q] # log[q]

\* The step creates, removes or rewrites the file at path p.
Touches(p) ==
  \/ Exists(data_dir, p) # Exists(data_dir', p)
  \/ Exists(data_dir, p) /\ Exists(data_dir', p) /\ data_dir'[p] # data_dir[p]

\* The two files that carry the identifier of request r.
OwnPaths(r) == {ImagePath(uuid4(r)), OwnResultsPath(r)}

\* C24: with a distinct identifier for each request, in every interleaving a
\* step of a request creates, rewrites or removes only the image file and the
\* results file of that request, the paths a request reads from are its own,
\* a results file holds the result of the request that owns it, and distinct
\* identifiers give distinct image and results file names.
C24_NoInterference ==
  [][/\ \A q \in Reqs :
          Acts(q) =>
            \A p \in (DOMAIN data_dir) \cup (DOMAIN data_dir') :
              Touches(p) =>
                /\ p \in OwnPaths(q)
                /\ \A r \in Reqs \ {q} : p \notin OwnPaths(r)
     /\ \A r \in Reqs :
          /\ image_path'[r] \in {NoPath, ImagePath(uuid4(r))}
          /\ proc_ret'[r].image_path \in {NoPath, ImagePath(uuid4(r))}
          /\ (Exists(data_dir', OwnResultsPath(r)) /\ data_dir'[OwnResultsPath(r)].complete)
               => /\ data_dir'[OwnResultsPath(r)].json = result'[r]
                  /\ result'[r]["image_path"] = ImagePath(uuid4(r))
     /\ \A a, b \in Reqs :
          a # b => /\ ImagePath(a) # ImagePath(b)
                   /\ ResultsPath(ImagePath(a)) # ResultsPath(ImagePath(b))
                   /\ ImagePath(a) # ResultsPath(ImagePath(b))]_vars

C24_Witness ==
  \E r, q \in Reqs :
    /\ r # q
    /\ Exists(data_dir, OwnResultsPath(r))
    /\ Exists(data_dir, ImagePath(uuid4(r)))
    /\ pc[q] = "normalize"
    /\ Exists(data_dir, ImagePath(uuid4(q)))

\* The identifier in the name of a file of the data directory.
IdOf(p) == p[2]

\* C29: every results file in the data directory has the image file of the
\* same identifier next to it, and was written after the remote model call
\* of the request with that identifier had returned.
C29_ResultsFileHasImage ==
  \A p \in DOMAIN data_dir :
    p[3] = "_results.json" =>
      /\ IdOf(p) \in {uuid4(r) : r \in Reqs}
      /\ Exists(data_dir, ImagePath(IdOf(p)))
      /\ \A r \in Reqs :
           uuid4(r) = IdOf(p) =>
             /\ Occurs(r, "model returned")
             /\ Occurs(r, "save")
             /\ Pos(r, "model returned") < Pos(r, "save")

C29_Witness ==
  \E r, q \in Reqs :
    /\ Exists(data_dir, OwnResultsPath(r))
    /\ ~data_dir[OwnResultsPath(r)].complete
    /\ pc[q] = "done"
    /\ Occurs(q, "remove")

\* C28: for every decoded image with width and height at least 1, the
\* dimensions normalize_image computes are both within 1..1024, so a call
\* whose save succeeds never fails for a dimension of zero.
C28_TargetDimensionsPositive ==
  (normalized # << >> /\ img.decodes /\ img.width >= 1 /\ img.height >= 1)
     => LET resize == img.width > max_size \/ img.height > max_size
            w == IF resize THEN NewWidth(img.width, img.height) ELSE img.width
            h == IF resize THEN NewHeight(img.width, img.height) ELSE img.height
        IN  /\ w \in 1..max_size
            /\ h \in 1..max_size
            /\ normalized[1].io_ok => normalized[1].ret.ok

\* C26: whatever content the remote call returns, classify_image does not
\* raise: it returns the parsed result with image_path attached, or the
\* degraded result.
C26_ReturnedContentNeverRaises ==
  classified # << >>
     => /\ ~classified[1].raised
        /\ "image_path" \in DOMAIN classified[1].value
        /\ classified[1].value["image_path"] = ResponsePath

\* C27: for every model response the result classify_image returns has the
\* image_path that was passed in, and its processing_time is the dict of the
\* pipeline's own timings, also when the model's JSON has keys of these
\* names.
C27_PipelineFieldsNotSpoofed ==
  (classified # << >> /\ ~classified[1].raised)
     => /\ classified[1].value["image_path"] = ResponsePath
        /\ classified[1].value["processing_time"] = ModelTiming

\* The model's JSON has both keys and classify_image has returned.
C27_Witness ==
  /\ classified # << >>
  /\ ~classified[1].raised
  /\ ~api_response.is_none
  /\ LET loaded == JsonLoads(ExtractJsonStr(api_response.text))
     IN  /\ loaded.ok
         /\ loaded.is_dict
         /\ {"image_path", "processing_time"} \subseteq DOMAIN loaded.value
         /\ loaded.value["image_path"] = SpoofPath

\* The stage durations of a processing_time dict, added up.
StageSum(pt) == pt.encode_seconds + pt.api_seconds + pt.process_seconds

\* The time that passed between the measured stages.
BetweenStages(m) ==
  (Mark(m, "encode_start") - Mark(m, "start_time"))
    + (Mark(m, "api_start") - Mark(m, "encode_end"))
    + (Mark(m, "process_start") - Mark(m, "api_end"))
    + (Mark(m, "end_time") - Mark(m, "process_end"))

NonNegative(pt) == \A k \in DOMAIN pt : pt[k] >= 0

\* C25 as stated: total_seconds equals encode_seconds + api_seconds +
\* process_seconds, and every duration is non-negative.
C25_TotalIsStageSum ==
  timing # << >>
     => /\ NonNegative(timing[1])
        /\ timing[1].total_seconds = StageSum(timing[1])

\* C25 as amended: total_seconds is the time from the start of
\* classify_image to the end of the processing, that is the sum of the three
\* stage durations plus the time that passed between the stages; it is never
\* less than the sum, and every duration is non-negative.
C25_TotalCoversStages ==
  timing # << >>
     => /\ NonNegative(timing[1])
        /\ timing[1].total_seconds = StageSum(timing[1]) + BetweenStages(marks)
        /\ timing[1].total_seconds >= StageSum(timing[1])

\* Every stage took time, and so did the steps between the stages.
C25_Witness ==
  /\ timing # << >>
  /\ timing[1].encode_seconds > 0
  /\ timing[1].api_seconds > 0
  /\ timing[1].process_seconds > 0
  /\ timing[1].total_seconds > StageSum(timing[1])

\* C30: over any number of calls of setup_logging, one after another or
\* overlapping, the handler-installation body begins at most once, and the
\* configuration it leaves is the one of a single run: the three sinks,
\* each once.
C30_BodyAtMostOnce ==
  /\ bodies <= 1
  /\ (logging_initialized /\ \A t \in Callers : caller[t] = "idle")
        => handlers.sinks = <<"stderr", "logs/app.log", "logs/error.log">>

====
